---- MODULE Spec2Model ----
(***************************************************************************)
(* Moderation back end of NeoGenWebDesign/mvpconsulting: the two Netlify   *)
(* functions netlify/functions/announcements.mts and testimonials.mts.     *)
(* Each function owns one Postgres table; a behaviour follows one of the   *)
(* two functions (fn), handling one HTTP request per step.                 *)
(* SpecEnsureRace and SpecRace follow requests in flight at once, one SQL  *)
(* statement per step: running is where each request is, serial the store  *)
(* the same requests leave when handled one after another.                 *)
(* The ticker widget of the host pages, in its two variants                *)
(* unnamed/part_000 and announcements.js, is modelled after the back end:  *)
(* doc is the host document, widget the state of the script.               *)
(***************************************************************************)
EXTENDS Integers, Sequences, FiniteSets, TLC

VARIABLES fn, db, req, resp, pre, approvedAt, calls, running, serial, doc, widget

server == <<fn, db, req, resp, pre, approvedAt, calls, running, serial>>
client == <<doc, widget>>
vars == <<fn, db, req, resp, pre, approvedAt, calls, running, serial, doc, widget>>

(* ------------------------------ bounds --------------------------------- *)
\* largest value of the database clock explored
MaxTime == 4
\* number of rows a pre-loaded store holds at most (SpecList, SpecLoaded)
MaxLoaded == 6
\* number of schema-ensure calls made in sequence (SpecEnsure)
MaxCalls == 3
\* number of requests in flight at once (SpecEnsureRace, SpecRace)
MaxProcs == 2

(* --------------------------- SQL vocabulary ---------------------------- *)
\* SQL NULL in a timestamp or integer column / in a text column
NULL == 0
NullText == "NULL"
\* a JSON property that is not present (undefined)
Undefined == "undefined"
NoRating == -1

Functions == {"announcements", "testimonials"}

AnnouncementColumns ==
  {"id", "content", "status", "created_at", "updated_at", "published_at"}

\* the table as an earlier version of announcements.mts left it: the
\* columns the migration branch adds are the ones it lacks
LegacyAnnouncementColumns == {"id", "content", "created_at"}

TestimonialColumns ==
  {"id", "full_name", "email", "location", "visa_type", "testimonial_content",
   "rating", "photo_url", "status", "rejection_reason", "created_at",
   "updated_at", "published_at"}

TableColumns(f) ==
  IF f = "announcements" THEN AnnouncementColumns ELSE TestimonialColumns

StatusIndex(f) == "idx_" \o f \o "_status"
CreatedAtIndex(f) == "idx_" \o f \o "_created_at"

\* LIMIT 5 of the approved listing
ApprovedLimit == 5

\* rating INTEGER CHECK (rating >= 1 AND rating <= 5); NULL passes a CHECK
RatingCheck(r) == r = NULL \/ (r >= 1 /\ r <= 5)

(* ------------------------------- schema -------------------------------- *)
\* ADD COLUMN IF NOT EXISTS: existing rows get the column default
MigrationDefaults(t) ==
  [published_at |-> NULL, updated_at |-> t, status |-> "pending"]

\* (variant) the migration writes the defaults over the columns a row has
ResetColumns(r, t) ==
  [c \in (DOMAIN r) \cup DOMAIN MigrationDefaults(t) |->
     IF c \in DOMAIN MigrationDefaults(t) THEN MigrationDefaults(t)[c] ELSE r[c]]

AddMissingColumns(r, t) ==
  [c \in (DOMAIN r) \cup DOMAIN MigrationDefaults(t) |->
     IF c \in DOMAIN r THEN r[c] ELSE MigrationDefaults(t)[c]]

\* (variant) the migration branch stamps updated_at of every row
EnsureAnnouncementsRestamp(d) ==
  IF ~d.exists
  THEN [d EXCEPT !.exists = TRUE,
                 !.columns = AnnouncementColumns,
                 !.indexes = {StatusIndex("announcements"),
                              CreatedAtIndex("announcements")}]
  ELSE LET t == d.now + 1
       IN [d EXCEPT !.columns = @ \cup DOMAIN MigrationDefaults(0),
                    !.indexes = @ \cup {StatusIndex("announcements"),
                                        CreatedAtIndex("announcements")},
                    !.rows = [i \in DOMAIN @ |->
                                [AddMissingColumns(@[i], t) EXCEPT !.updated_at = t]],
                    !.now = t]

\* ensureTableExists of announcements.mts
EnsureAnnouncements(d) ==
  IF ~d.exists
  THEN [d EXCEPT !.exists = TRUE,
                 !.columns = AnnouncementColumns,
                 !.indexes = {StatusIndex("announcements"),
                              CreatedAtIndex("announcements")}]
  ELSE LET missing == DOMAIN MigrationDefaults(0) \ d.columns
           t == IF "updated_at" \in missing THEN d.now + 1 ELSE d.now
       IN [d EXCEPT !.columns = @ \cup missing,
                    !.indexes = @ \cup {StatusIndex("announcements"),
                                        CreatedAtIndex("announcements")},
                    !.rows = [i \in DOMAIN @ |-> AddMissingColumns(@[i], t)],
                    !.now = t]

\* ensureTableExists of testimonials.mts (no migration branch)
EnsureTestimonials(d) ==
  IF ~d.exists
  THEN [d EXCEPT !.exists = TRUE,
                 !.columns = TestimonialColumns,
                 !.indexes = {StatusIndex("testimonials"),
                              CreatedAtIndex("testimonials")}]
  ELSE d

ensureTableExists(f, d) ==
  IF f = "announcements" THEN EnsureAnnouncements(d) ELSE EnsureTestimonials(d)

(* ----------------------------- identifiers ----------------------------- *)
\* a path segment: t = "uuid" is the canonical text of uuid n, "UUID" the same
\* uuid written in upper case, "bad" a text that is no uuid, "word" the word w
Seg(form, uuid, word) == [t |-> form, n |-> uuid, w |-> word]
Word(w) == Seg("word", 0, w)

\* ${id}::uuid : the cast accepts both spellings and fails on anything else
CastError == -1
UuidCast(seg) == IF seg.t \in {"uuid", "UUID"} THEN seg.n ELSE CastError

(* ------------------------------ JS values ------------------------------ *)
\* x || null on a string / on a number
OrNullText(x) == IF x \in {Undefined, ""} THEN NullText ELSE x
OrNullInt(x) == IF x \in {NoRating, 0} THEN NULL ELSE x
\* !x on a string
Falsy(x) == x \in {Undefined, ""}

(* ----------------------------- SQL queries ----------------------------- *)
\* the outcome of one sql`...` call: ok = FALSE is a thrown database error
Ok(d, out) == [ok |-> TRUE, db |-> d, out |-> out]
SqlError(d) == [ok |-> FALSE, db |-> d, out |-> <<>>]

HasColumns(d, cols) == d.exists /\ cols \subseteq d.columns

\* SELECT / RETURNING column list of row i
Project(i, r, cols) == [c \in cols |-> IF c = "id" THEN i ELSE r[c]]

\* ORDER BY ... DESC sorts NULL first
DescKey(x) == IF x = NULL THEN MaxTime + 100 ELSE x

\* (variant) ORDER BY ... ASC
BeforeAscending(r1, r2, order) ==
  IF order = "published"
  THEN \/ DescKey(r1.published_at) < DescKey(r2.published_at)
       \/ /\ DescKey(r1.published_at) = DescKey(r2.published_at)
          /\ r1.created_at < r2.created_at
  ELSE r1.created_at < r2.created_at

\* r1 sorts strictly before r2
Before(r1, r2, order) ==
  IF order = "published"
  THEN \/ DescKey(r1.published_at) > DescKey(r2.published_at)
       \/ /\ DescKey(r1.published_at) = DescKey(r2.published_at)
          /\ r1.created_at > r2.created_at
  ELSE r1.created_at > r2.created_at

\* every order in which the database may return the rows ids of table rows
\* under the ORDER BY, cut after limit rows (rows that tie come in any order)
RECURSIVE OrderBy(_, _, _, _)
OrderBy(rows, ids, order, limit) ==
  IF ids = {} \/ limit = 0 THEN {<<>>}
  ELSE UNION {
         {<<i>> \o s : s \in OrderBy(rows, ids \ {i}, order, limit - 1)} :
         i \in {j \in ids : \A k \in ids : ~Before(rows[k], rows[j], order)}}

AnnouncementListColumns ==
  {"id", "content", "status", "created_at", "published_at"}

TestimonialListColumns ==
  {"id", "full_name", "email", "location", "visa_type", "testimonial_content",
   "rating", "photo_url", "status", "created_at", "published_at"}

ProjectAll(rows, s, cols) == [k \in 1..Len(s) |-> Project(s[k], rows[s[k]], cols)]

\* (variant) getAnnouncements without the branch for 'approved'
AnnouncementSelectsPlain(d, status) ==
  IF ~HasColumns(d, AnnouncementListColumns) THEN {SqlError(d)}
  ELSE IF status \notin {Undefined, "", "all"}
  THEN {Ok(d, ProjectAll(d.rows, s, AnnouncementListColumns)) :
          s \in OrderBy(d.rows,
                        {i \in DOMAIN d.rows : d.rows[i].status = status},
                        "created", Cardinality(DOMAIN d.rows))}
  ELSE {Ok(d, ProjectAll(d.rows, s, AnnouncementListColumns)) :
          s \in OrderBy(d.rows, DOMAIN d.rows, "created",
                        Cardinality(DOMAIN d.rows))}

\* getAnnouncements after ensureTableExists: the set of possible results
AnnouncementSelects(d, status) ==
  IF ~HasColumns(d, AnnouncementListColumns) THEN {SqlError(d)}
  ELSE IF status = "approved"
  THEN {Ok(d, ProjectAll(d.rows, s, AnnouncementListColumns)) :
          s \in OrderBy(d.rows,
                        {i \in DOMAIN d.rows : d.rows[i].status = "approved"},
                        "published", ApprovedLimit)}
  ELSE IF status \notin {Undefined, "", "all"}
  THEN {Ok(d, ProjectAll(d.rows, s, AnnouncementListColumns)) :
          s \in OrderBy(d.rows,
                        {i \in DOMAIN d.rows : d.rows[i].status = status},
                        "created", Cardinality(DOMAIN d.rows))}
  ELSE {Ok(d, ProjectAll(d.rows, s, AnnouncementListColumns)) :
          s \in OrderBy(d.rows, DOMAIN d.rows, "created",
                        Cardinality(DOMAIN d.rows))}

\* getTestimonials after ensureTableExists: the set of possible results
TestimonialSelects(d, status) ==
  IF ~HasColumns(d, TestimonialListColumns) THEN {SqlError(d)}
  ELSE IF status \notin {Undefined, "", "all"}
  THEN {Ok(d, ProjectAll(d.rows, s, TestimonialListColumns)) :
          s \in OrderBy(d.rows,
                        {i \in DOMAIN d.rows : d.rows[i].status = status},
                        "created", Cardinality(DOMAIN d.rows))}
  ELSE {Ok(d, ProjectAll(d.rows, s, TestimonialListColumns)) :
          s \in OrderBy(d.rows, DOMAIN d.rows, "created",
                        Cardinality(DOMAIN d.rows))}

getAnnouncements(d, status) ==
  AnnouncementSelects(ensureTableExists("announcements", d), status)

getTestimonials(d, status) ==
  TestimonialSelects(ensureTableExists("testimonials", d), status)

\* (variant) the statement has no WHERE clause: every row is set to r
PutAll(d, i, r) ==
  [d EXCEPT !.rows = [k \in DOMAIN @ \cup {i} |-> r]]

\* the table with row i set to r
Put(d, i, r) ==
  [d EXCEPT !.rows = [k \in DOMAIN @ \cup {i} |-> IF k = i THEN r ELSE @[k]]]

\* (variant) the insert stamps published_at
InsertAnnouncementPublished(d, content) ==
  IF ~HasColumns(d, AnnouncementColumns) THEN SqlError(d)
  ELSE LET t == d.now + 1
           r == [content |-> content, status |-> "pending", created_at |-> t,
                 updated_at |-> t, published_at |-> t]
           d2 == [Put(d, d.nextId, r) EXCEPT !.nextId = @ + 1, !.now = t]
       IN Ok(d2, <<Project(d.nextId, r, {"id", "content", "status", "created_at"})>>)

\* INSERT INTO announcements (content, status) VALUES (.., 'pending')
InsertAnnouncement(d, content) ==
  IF ~HasColumns(d, AnnouncementColumns) THEN SqlError(d)
  ELSE LET t == d.now + 1
           r == [content |-> content, status |-> "pending", created_at |-> t,
                 updated_at |-> t, published_at |-> NULL]
           d2 == [Put(d, d.nextId, r) EXCEPT !.nextId = @ + 1, !.now = t]
       IN Ok(d2, <<Project(d.nextId, r, {"id", "content", "status", "created_at"})>>)

createAnnouncement(d, content) ==
  InsertAnnouncement(ensureTableExists("announcements", d), content)

\* INSERT INTO testimonials (...) VALUES (.., 'pending')
InsertTestimonial(d, data) ==
  IF ~HasColumns(d, TestimonialColumns) THEN SqlError(d)
  ELSE LET t == d.now + 1
           r == [full_name |-> data.fullName,
                 email |-> OrNullText(data.email),
                 location |-> OrNullText(data.location),
                 visa_type |-> OrNullText(data.visaType),
                 testimonial_content |-> data.testimonialContent,
                 rating |-> OrNullInt(data.rating),
                 photo_url |-> OrNullText(data.photoUrl),
                 status |-> "pending", rejection_reason |-> NullText,
                 created_at |-> t, updated_at |-> t, published_at |-> NULL]
           d2 == [Put(d, d.nextId, r) EXCEPT !.nextId = @ + 1, !.now = t]
       IN IF ~RatingCheck(r.rating) THEN SqlError(d)
          ELSE Ok(d2, <<Project(d.nextId, r,
                         {"id", "full_name", "email", "location", "visa_type",
                          "testimonial_content", "rating", "photo_url",
                          "status", "created_at"})>>)

createTestimonial(d, data) ==
  InsertTestimonial(ensureTableExists("testimonials", d), data)

\* (variant) WHERE id = ${id}::uuid AND status = 'pending'
UpdatePendingById(d, seg, set, cols) ==
  LET i == UuidCast(seg) IN
  IF ~HasColumns(d, DOMAIN set \cup cols) \/ i = CastError THEN SqlError(d)
  ELSE IF i \notin DOMAIN d.rows \/ d.rows[i].status # "pending" THEN Ok(d, <<>>)
  ELSE LET r == [c \in DOMAIN d.rows[i] |->
                   IF c \in DOMAIN set THEN set[c] ELSE d.rows[i][c]]
       IN Ok([Put(d, i, r) EXCEPT !.now = set.updated_at], <<Project(i, r, cols)>>)

\* UPDATE f SET <set> WHERE id = ${id}::uuid RETURNING <cols>
UpdateById(d, seg, set, cols) ==
  LET i == UuidCast(seg) IN
  IF ~HasColumns(d, DOMAIN set \cup cols) \/ i = CastError THEN SqlError(d)
  ELSE IF i \notin DOMAIN d.rows THEN Ok(d, <<>>)
  ELSE LET r == [c \in DOMAIN d.rows[i] |->
                   IF c \in DOMAIN set THEN set[c] ELSE d.rows[i][c]]
       IN Ok([Put(d, i, r) EXCEPT !.now = set.updated_at], <<Project(i, r, cols)>>)

\* (variant) published_at = COALESCE(published_at, CURRENT_TIMESTAMP)
approveAnnouncementOnce(d0, seg) ==
  LET d == ensureTableExists("announcements", d0)
      i == UuidCast(seg)
      old == IF i \in DOMAIN d.rows THEN d.rows[i].published_at ELSE NULL
  IN UpdateById(d, seg,
                [status |-> "approved",
                 published_at |-> IF old = NULL THEN d.now + 1 ELSE old,
                 updated_at |-> d.now + 1],
                {"id", "content", "status", "published_at"})

approveAnnouncement(d0, seg) ==
  LET d == ensureTableExists("announcements", d0) IN
  UpdateById(d, seg,
             [status |-> "approved", published_at |-> d.now + 1,
              updated_at |-> d.now + 1],
             {"id", "content", "status", "published_at"})

\* (variant) the reject clears published_at
rejectAnnouncementUnpublish(d0, seg) ==
  LET d == ensureTableExists("announcements", d0) IN
  UpdateById(d, seg,
             [status |-> "rejected", published_at |-> NULL,
              updated_at |-> d.now + 1],
             {"id", "content", "status"})

rejectAnnouncement(d0, seg) ==
  LET d == ensureTableExists("announcements", d0) IN
  UpdateById(d, seg, [status |-> "rejected", updated_at |-> d.now + 1],
             {"id", "content", "status"})

approveTestimonial(d0, seg) ==
  LET d == ensureTableExists("testimonials", d0) IN
  UpdateById(d, seg,
             [status |-> "approved", published_at |-> d.now + 1,
              updated_at |-> d.now + 1],
             {"id", "full_name", "status", "published_at"})

\* (variant) rejection_reason = COALESCE(${reason}, rejection_reason)
rejectTestimonialKeepReason(d0, seg, reason) ==
  LET d == ensureTableExists("testimonials", d0)
      i == UuidCast(seg)
      old == IF i \in DOMAIN d.rows THEN d.rows[i].rejection_reason ELSE NullText
  IN UpdateById(d, seg,
                [status |-> "rejected",
                 rejection_reason |->
                   IF OrNullText(reason) = NullText THEN old ELSE reason,
                 updated_at |-> d.now + 1],
                {"id", "full_name", "status", "rejection_reason"})

rejectTestimonial(d0, seg, reason) ==
  LET d == ensureTableExists("testimonials", d0) IN
  UpdateById(d, seg,
             [status |-> "rejected", rejection_reason |-> OrNullText(reason),
              updated_at |-> d.now + 1],
             {"id", "full_name", "status", "rejection_reason"})

\* (variant) the delete keeps the row and marks it rejected
deleteAnnouncementSoft(d0, seg) ==
  LET d == ensureTableExists("announcements", d0)
      i == UuidCast(seg)
  IN IF ~HasColumns(d, {"id"}) \/ i = CastError THEN SqlError(d)
     ELSE IF i \notin DOMAIN d.rows THEN Ok(d, <<>>)
     ELSE Ok([d EXCEPT !.rows[i].status = "rejected"], <<[id |-> i]>>)

\* DELETE FROM announcements WHERE id = ${id}::uuid RETURNING id
deleteAnnouncement(d0, seg) ==
  LET d == ensureTableExists("announcements", d0)
      i == UuidCast(seg)
  IN IF ~HasColumns(d, {"id"}) \/ i = CastError THEN SqlError(d)
     ELSE IF i \notin DOMAIN d.rows THEN Ok(d, <<>>)
     ELSE Ok([d EXCEPT !.rows = [k \in DOMAIN @ \ {i} |-> @[k]]],
             <<[id |-> i]>>)

(* --------------------------- request handlers -------------------------- *)
Response(code, message, out) == [status |-> code, error |-> message, rows |-> out]
Outcome(d, r) == [db |-> d, resp |-> r]

\* the catch block of the handlers
InternalError(d) == Outcome(d, Response(500, "Internal server error", <<>>))
MethodNotAllowed(d) == Outcome(d, Response(405, "Method not allowed", <<>>))

\* await req.json() throws without a body or on invalid JSON; reading a
\* property of the JSON value null throws a TypeError
JsonThrows(body) == body.kind \in {"none", "invalid"}
PropertyThrows(body) == body.kind = "null"

\* (variant) the empty result is not told from a row
AlwaysFound(q, notFound) ==
  IF ~q.ok THEN InternalError(q.db) ELSE Outcome(q.db, Response(200, "", q.out))

\* 404 when the statement returned no row, 200 with the row otherwise
FoundOr404(q, notFound) ==
  IF ~q.ok THEN InternalError(q.db)
  ELSE IF q.out = <<>> THEN Outcome(q.db, Response(404, notFound, <<>>))
  ELSE Outcome(q.db, Response(200, "", q.out))

IsAction(r, a) == Len(r.pathParts) = 2 /\ r.pathParts[2].w = a

\* default export of announcements.mts; r.pathParts is pathParts after filter
AnnouncementsHandler(d, r) ==
  IF r.method = "GET"
  THEN {IF q.ok THEN Outcome(q.db, Response(200, "", q.out))
        ELSE InternalError(q.db) : q \in getAnnouncements(d, r.status)}
  ELSE IF r.method = "POST" /\ IsAction(r, "approve")
  THEN {FoundOr404(approveAnnouncement(d, r.pathParts[1]), "Announcement not found")}
  ELSE IF r.method = "POST" /\ IsAction(r, "reject")
  THEN {FoundOr404(rejectAnnouncement(d, r.pathParts[1]), "Announcement not found")}
  ELSE IF r.method = "POST" /\ IsAction(r, "delete")
  THEN {FoundOr404(deleteAnnouncement(d, r.pathParts[1]), "Announcement not found")}
  ELSE IF r.method = "POST" /\ Len(r.pathParts) = 0
  THEN IF JsonThrows(r.body) \/ PropertyThrows(r.body) THEN {InternalError(d)}
       ELSE IF Falsy(r.body.content)
       THEN {Outcome(d, Response(400, "Missing required fields: content is required", <<>>))}
       ELSE LET q == createAnnouncement(d, r.body.content)
            IN {IF q.ok THEN Outcome(q.db, Response(201, "", q.out))
                ELSE InternalError(q.db)}
  ELSE IF r.method = "DELETE" /\ Len(r.pathParts) = 1
  THEN LET q == deleteAnnouncement(d, r.pathParts[1])
       IN {IF ~q.ok THEN InternalError(q.db)
           ELSE IF q.out = <<>>
           THEN Outcome(q.db, Response(404, "Announcement not found", <<>>))
           ELSE Outcome(q.db, Response(200, "", <<>>))}
  ELSE {MethodNotAllowed(d)}

\* the reject route reads the body inside its own try/catch
RejectReason(body) ==
  IF JsonThrows(body) \/ PropertyThrows(body) THEN Undefined ELSE body.reason

\* default export of testimonials.mts
TestimonialsHandler(d, r) ==
  IF r.method = "GET"
  THEN {IF q.ok THEN Outcome(q.db, Response(200, "", q.out))
        ELSE InternalError(q.db) : q \in getTestimonials(d, r.status)}
  ELSE IF r.method = "POST" /\ IsAction(r, "approve")
  THEN {FoundOr404(approveTestimonial(d, r.pathParts[1]), "Testimonial not found")}
  ELSE IF r.method = "POST" /\ IsAction(r, "reject")
  THEN {FoundOr404(rejectTestimonial(d, r.pathParts[1], RejectReason(r.body)),
                   "Testimonial not found")}
  ELSE IF r.method = "POST" /\ Len(r.pathParts) = 0
  THEN IF JsonThrows(r.body) \/ PropertyThrows(r.body) THEN {InternalError(d)}
       ELSE IF Falsy(r.body.fullName) \/ Falsy(r.body.testimonialContent)
       THEN {Outcome(d, Response(400,
               "Missing required fields: fullName and testimonialContent are required",
               <<>>))}
       ELSE LET q == createTestimonial(d, r.body)
            IN {IF q.ok
                THEN Outcome(q.db, Response(201, "",
                       <<Project(q.out[1].id, q.out[1],
                                 {"id", "full_name", "status", "created_at"})>>))
                ELSE InternalError(q.db)}
  ELSE {MethodNotAllowed(d)}

Handler(f, d, r) ==
  IF f = "announcements" THEN AnnouncementsHandler(d, r)
  ELSE TestimonialsHandler(d, r)

(* ------------------------------- requests ------------------------------ *)
Body(k, c, name, text, stars, mail, why) ==
  [kind |-> k, content |-> c, fullName |-> name, testimonialContent |-> text,
   rating |-> stars, email |-> mail, location |-> Undefined,
   visaType |-> Undefined, photoUrl |-> Undefined, reason |-> why]

Object(c, name, text, stars, mail, why) ==
  Body("object", c, name, text, stars, mail, why)

NoBody == Body("none", Undefined, Undefined, Undefined, NoRating, Undefined, Undefined)
InvalidBody == [NoBody EXCEPT !.kind = "invalid"]
NullBody == [NoBody EXCEPT !.kind = "null"]
EmptyObject == [NoBody EXCEPT !.kind = "object"]

\* the bodies posted to the create route of function f
CreateBodies(f) ==
  IF f = "announcements"
  THEN {NoBody, NullBody, EmptyObject,
        Object("", Undefined, Undefined, NoRating, Undefined, Undefined),
        Object("c1", Undefined, Undefined, NoRating, Undefined, Undefined)}
  ELSE {NoBody, EmptyObject,
        Object(Undefined, "A", Undefined, NoRating, Undefined, Undefined),
        Object(Undefined, "A", "B", NoRating, Undefined, Undefined),
        Object(Undefined, "A", "B", 5, "a@b.c", Undefined),
        Object(Undefined, "A", "B", 7, Undefined, Undefined)}

\* the bodies posted to the reject route
RejectBodies ==
  {NoBody, InvalidBody, EmptyObject,
   [EmptyObject EXCEPT !.reason = ""],
   [EmptyObject EXCEPT !.reason = "r1"]}

Statuses == {Undefined, "all", "approved", "pending", "rejected"}

\* the id segments tried: every uuid generated so far and the next one (which
\* no row has yet), the first uuid in upper case, and a text that is no uuid
IdSegs(d) ==
  {Seg("uuid", n, "") : n \in 1..d.nextId}
    \cup {Seg("UUID", 1, ""), Seg("bad", 0, "")}

Request(verb, parts, filter, payload) ==
  [method |-> verb, pathParts |-> parts, status |-> filter, body |-> payload]

NoRequest == Request("NONE", <<>>, Undefined, NoBody)
NoResponse == Response(0, "", <<>>)

\* the operation the handlers dispatch request r to
Dispatch(f, r) ==
  IF r.method = "GET" THEN "list"
  ELSE IF r.method = "POST" /\ IsAction(r, "approve") THEN "approve"
  ELSE IF r.method = "POST" /\ IsAction(r, "reject") THEN "reject"
  ELSE IF f = "announcements" /\ r.method = "POST" /\ IsAction(r, "delete")
  THEN "delete"
  ELSE IF r.method = "POST" /\ Len(r.pathParts) = 0 THEN "create"
  ELSE IF f = "announcements" /\ r.method = "DELETE" /\ Len(r.pathParts) = 1
  THEN "delete"
  ELSE "none"

(* ---------------------------- host document --------------------------- *)
\* the two variants of the widget: unnamed/part_000 polls for an anchor,
\* announcements.js observes the root container
Engines == {"poller", "observer"}

\* the elements the selectors look for; "navbar" stands for an element that
\* only the class and role selectors of part_000 match
Anchors == {"header", "nav", "navbar"}

\* navSelectors of part_000, in its order
NavSelectors == <<"header", "nav", "navbar">>
\* document.querySelector('nav') || document.querySelector('header')
PreferredAnchors == <<"nav", "header">>

\* where the ticker node is: rel = "after" the element at, "in" it as its
\* last child, at the "top" of the root container, or "none" (not in the
\* document); inside tells whether that place is below the root container
Place(rel, at, inside) == [rel |-> rel, at |-> at, inside |-> inside]
Detached == Place("none", "none", FALSE)
Top == Place("top", "root", TRUE)

\* the host document.  root is what getElementById('root') ||
\* getElementById('app') || document.body yields: "none" while the body is
\* not parsed, "root" for a #root or #app element, else "body".  ready:
\* readyState is no longer 'loading'.  anchors[a]: "absent", "inside" the root
\* container or "outside" it.  navFollowsHeader: the nav is the next sibling of
\* the header.  bar: the place of the ticker node.
Document(root, ready, anchors, follows, bar) ==
  [root |-> root, ready |-> ready, anchors |-> anchors,
   navFollowsHeader |-> follows, bar |-> bar]

NoAnchors == [a \in Anchors |-> "absent"]
NoDocument == Document("none", FALSE, NoAnchors, FALSE, Detached)

\* (variant) the marker is never found
BarNeverFound(d) == FALSE

\* document.getElementById('announcement-bar') /
\* document.querySelector('.announcement-bar')
BarPresent(d) == d.bar # Detached

\* the first selector of the list that matches an element, "none" if none does
RECURSIVE QuerySelectors(_, _)
QuerySelectors(d, sels) ==
  IF sels = <<>> THEN "none"
  ELSE IF d.anchors[Head(sels)] # "absent" THEN Head(sels)
  ELSE QuerySelectors(d, Tail(sels))

\* the fallback of both variants: first child of the root container
Fallback(d) == [d EXCEPT !.bar = Top]

\* (variant) insert of part_000 with nav tried before header
InsertNavFirst(d) ==
  LET target == QuerySelectors(d, <<"nav", "header", "navbar">>) IN
  IF BarPresent(d) THEN [doc |-> d, success |-> TRUE]
  ELSE IF target # "none"
  THEN [doc |-> [d EXCEPT !.bar = Place("after", target,
                                        d.anchors[target] = "inside")],
        success |-> TRUE]
  ELSE [doc |-> d, success |-> FALSE]

\* insert of part_000: the document it leaves and the value it returns
Insert(d) ==
  LET target == QuerySelectors(d, NavSelectors) IN
  IF BarPresent(d) THEN [doc |-> d, success |-> TRUE]
  ELSE IF target # "none"
  THEN [doc |-> [d EXCEPT !.bar = Place("after", target,
                                        d.anchors[target] = "inside")],
        success |-> TRUE]
  ELSE [doc |-> d, success |-> FALSE]

\* insertTicker of announcements.js
InsertTicker(d) ==
  LET nav == QuerySelectors(d, PreferredAnchors) IN
  IF BarPresent(d) THEN d
  ELSE IF nav # "none"
  THEN [d EXCEPT !.bar = Place("in", nav, d.anchors[nav] = "inside")]
  ELSE Fallback(d)

(* -------------------------------- widget ------------------------------- *)
POLL_MAX_RETRIES == 20

\* scroll durations in hundredths of a second: the 30s of .ticker-content,
\* and Math.max(10, 10 + (totalChars * 0.15))
FixedDuration == 3000
Max(a, b) == IF a >= b THEN a ELSE b
Duration(totalChars) == Max(1000, 1000 + totalChars * 15)

RECURSIVE TotalChars(_)
TotalChars(lengths) ==
  IF lengths = <<>> THEN 0 ELSE Head(lengths) + TotalChars(Tail(lengths))

\* what fetch and response.json() yield: the fetch rejects ("error"), or a
\* response with ok or not whose body is no JSON ("unparsable"), the JSON null,
\* a JSON object, or an array of items with contents of the given lengths
Fetched(kind, ok, body, lengths) ==
  [kind |-> kind, ok |-> ok, body |-> body, lengths |-> lengths]

FetchOutcomes ==
  {Fetched("error", FALSE, "none", <<>>)} \cup
  {Fetched("response", ok, body, <<>>) :
     ok \in BOOLEAN, body \in {"unparsable", "null", "object", "array"}} \cup
  {Fetched("response", ok, "array", l) :
     ok \in BOOLEAN, l \in {<<0>>, <<100>>, <<7, 13>>}}

NoFetch == Fetched("none", FALSE, "none", <<>>)

\* the state of the script.  phase: "start" before it runs, "waiting" for
\* DOMContentLoaded before init (part_000), "fetching", "aborted", "polling",
\* "done" (part_000 after its insertion), "deferred" (announcements.js
\* without a root element), "observing".  fetched: what the fetch yielded.
\* duration 0: none computed.  last: the step taken last.
Widget(engine, phase, timer, retries, observing, pending, f, chars, dur, last) ==
  [engine |-> engine, phase |-> phase, timer |-> timer, retries |-> retries,
   observing |-> observing, pending |-> pending, fetched |-> f,
   chars |-> chars, duration |-> dur, last |-> last]

NewWidget(e) ==
  Widget(e, "start", FALSE, 0, FALSE, FALSE, NoFetch, 0, 0, "none")
NoWidget == NewWidget("none")

\* init of part_000 reaches the construction of the bar
PollerBuilds(f) ==
  f.kind = "response" /\ f.ok /\ f.body = "array" /\ f.lengths # <<>>

\* announcements.js reaches the construction of the bar
ObserverBuilds(f) ==
  f.kind = "response" /\ f.body = "array" /\ f.lengths # <<>>

(* ------------------------- statements in flight ------------------------ *)
\* the invocations of one function that are in flight at once
Procs == 1..MaxProcs

\* (variant) CREATE TABLE without the existence guard
CreateTablePlain(f, d) ==
  IF d.exists THEN SqlError(d)
  ELSE Ok([d EXCEPT !.exists = TRUE, !.columns = TableColumns(f)], <<>>)

\* CREATE TABLE IF NOT EXISTS f (...)
CreateTableIfNotExists(f, d) ==
  IF d.exists THEN Ok(d, <<>>)
  ELSE Ok([d EXCEPT !.exists = TRUE, !.columns = TableColumns(f)], <<>>)

\* CREATE INDEX IF NOT EXISTS name ON f(column)
CreateIndexIfNotExists(d, name, column) ==
  IF ~HasColumns(d, {column}) THEN SqlError(d)
  ELSE Ok([d EXCEPT !.indexes = @ \cup {name}], <<>>)

\* ALTER TABLE announcements ADD COLUMN IF NOT EXISTS ... (three columns)
AddColumnsIfNotExist(d) ==
  IF ~d.exists THEN SqlError(d)
  ELSE LET missing == DOMAIN MigrationDefaults(0) \ d.columns
           t == IF "updated_at" \in missing THEN d.now + 1 ELSE d.now
       IN Ok([d EXCEPT !.columns = @ \cup missing,
                       !.rows = [i \in DOMAIN @ |-> AddMissingColumns(@[i], t)],
                       !.now = t], <<>>)

\* where an invocation is.  op: "ensure" for ensureTableExists alone, else the
\* route.  pc: the statement it issues next.  saw: what its existence check
\* answered.  guarded: its CREATE TABLE found the table made by another.
\* status: the status of its response, 0 before.  at: the position of its
\* own statement among those of all invocations, 0 before.
Idle ==
  [op |-> "none", pc |-> "idle", saw |-> FALSE, guarded |-> FALSE,
   status |-> 0, at |-> 0]
NoCalls == [p \in Procs |-> Idle]

\* what follows the last statement of ensureTableExists
AfterEnsure(op) == IF op = "ensure" THEN "done" ELSE "statement"

\* the row all requests in flight address
TargetSeg == Seg("uuid", 1, "")

\* the routes that change a row of function f
RaceOps(f) ==
  IF f = "announcements" THEN {"approve", "reject", "delete"}
  ELSE {"approve", "reject"}

\* the route's own statement and the response made of its result; the
\* ensureTableExists inside finds its work done by the statements before
RouteOutcome(f, op, d) ==
  IF op = "approve"
  THEN IF f = "announcements"
       THEN FoundOr404(approveAnnouncement(d, TargetSeg), "Announcement not found")
       ELSE FoundOr404(approveTestimonial(d, TargetSeg), "Testimonial not found")
  ELSE IF op = "reject"
  THEN IF f = "announcements"
       THEN FoundOr404(rejectAnnouncement(d, TargetSeg), "Announcement not found")
       ELSE FoundOr404(rejectTestimonial(d, TargetSeg, "r1"), "Testimonial not found")
  ELSE FoundOr404(deleteAnnouncement(d, TargetSeg), "Announcement not found")

(* ----------------------------- state machine --------------------------- *)
Database(present, cols, idx, table, next, clock) ==
  [exists |-> present, columns |-> cols, indexes |-> idx, rows |-> table,
   nextId |-> next, now |-> clock]

NoTable == Database(FALSE, {}, {}, <<>>, 1, 0)

CurrentTable(f) ==
  Database(TRUE, TableColumns(f), {StatusIndex(f), CreatedAtIndex(f)}, <<>>, 1, 0)

\* an announcements table of the earlier version, empty or holding one row
LegacyTables ==
  {Database(TRUE, LegacyAnnouncementColumns, {}, <<>>, 1, 0),
   Database(TRUE, LegacyAnnouncementColumns, {}, <<[content |-> "old", created_at |-> 1]>>, 2, 1)}

InitialTables(f) ==
  {NoTable, CurrentTable(f)} \cup (IF f = "announcements" THEN LegacyTables ELSE {})

Init ==
  /\ fn \in Functions
  /\ db \in InitialTables(fn)
  /\ req = NoRequest
  /\ resp = NoResponse
  /\ pre = db
  /\ approvedAt = [i \in DOMAIN db.rows |-> NULL]
  /\ calls = 0
  /\ running = NoCalls
  /\ serial = NoTable
  /\ doc = NoDocument
  /\ widget = NoWidget

\* the time of the latest approve that answered 200, per uuid generated so far
Approvals(r, o) ==
  [i \in 1..(o.db.nextId - 1) |->
     IF /\ Dispatch(fn, r) = "approve" /\ o.resp.status = 200
        /\ i = UuidCast(r.pathParts[1])
     THEN o.db.now
     ELSE IF i \in DOMAIN approvedAt THEN approvedAt[i] ELSE NULL]

\* the function handles the request of the given method, path segments,
\* status parameter and body
Handle(verb, parts, filter, payload) ==
  LET r == Request(verb, parts, filter, payload) IN
  \E o \in Handler(fn, db, r) :
    /\ o.db.now <= MaxTime
    /\ db' = o.db
    /\ req' = r
    /\ resp' = o.resp
    /\ pre' = db
    /\ approvedAt' = Approvals(r, o)
    /\ fn' = fn
    /\ calls' = calls
    /\ running' = running
    /\ serial' = serial
    /\ UNCHANGED client

List == \E status \in Statuses : Handle("GET", <<>>, status, NoBody)

Create == \E b \in CreateBodies(fn) : Handle("POST", <<>>, Undefined, b)

Approve ==
  \E s \in IdSegs(db) : Handle("POST", <<s, Word("approve")>>, Undefined, NoBody)

Reject ==
  \E s \in IdSegs(db), b \in RejectBodies :
    Handle("POST", <<s, Word("reject")>>, Undefined, b)

DeleteByPost ==
  \E s \in IdSegs(db) : Handle("POST", <<s, Word("delete")>>, Undefined, NoBody)

Delete == \E s \in IdSegs(db) : Handle("DELETE", <<s>>, Undefined, NoBody)

ListApproved == Handle("GET", <<>>, "approved", NoBody)

Next == List \/ Create \/ Approve \/ Reject \/ DeleteByPost \/ Delete

Spec == Init /\ [][Next]_vars

(* ----------------------------- loaded stores --------------------------- *)
\* Stores that earlier requests have filled.  Rows written by concurrent
\* requests can carry equal timestamps, so the kinds include ties.
Kind(st, created, published, updated) ==
  [status |-> st, created_at |-> created, published_at |-> published,
   updated_at |-> updated]

\* the rows a store listed at time 3 may hold: concurrent requests leave rows
\* of one created_at and one published_at
ListKinds ==
  <<Kind("approved", 1, 2, 2), Kind("approved", 1, 2, 2),
    Kind("approved", 1, 3, 3), Kind("approved", 1, 3, 3),
    Kind("approved", 2, 3, 3), Kind("approved", 2, 3, 3),
    Kind("pending", 3, NULL, 3), Kind("rejected", 1, 2, 3)>>

\* the rows a store moderated from time 2 on may hold
ModerationKinds ==
  <<Kind("approved", 1, 2, 2), Kind("approved", 1, 2, 2),
    Kind("approved", 1, 2, 2), Kind("approved", 1, 2, 2),
    Kind("approved", 1, 2, 2), Kind("pending", 1, NULL, 1),
    Kind("pending", 2, NULL, 2)>>

\* a row of function f of kind k
RowOf(f, k) ==
  IF f = "announcements"
  THEN [content |-> "c1", status |-> k.status, created_at |-> k.created_at,
        updated_at |-> k.updated_at, published_at |-> k.published_at]
  ELSE [full_name |-> "A", email |-> NullText, location |-> NullText,
        visa_type |-> NullText, testimonial_content |-> "B", rating |-> NULL,
        photo_url |-> NullText, status |-> k.status,
        rejection_reason |-> NullText, created_at |-> k.created_at,
        updated_at |-> k.updated_at, published_at |-> k.published_at]

\* the current tables of f holding up to MaxLoaded of the rows of kinds, at
\* time t; uuids are random, so one table stands for all that differ in which
\* uuid holds which row
LoadedTables(f, kinds, t) ==
  UNION {{Database(TRUE, TableColumns(f), {StatusIndex(f), CreatedAtIndex(f)},
                   [i \in 1..n |-> RowOf(f, kinds[ks[i]])], n + 1, t) :
            ks \in {g \in [1..n -> 1..Len(kinds)] :
                      \A i \in 1..(n - 1) : g[i] < g[i + 1]}} :
         n \in 0..MaxLoaded}

InitLoaded(kinds, t) ==
  /\ fn \in Functions
  /\ db \in LoadedTables(fn, kinds, t)
  /\ req = NoRequest
  /\ resp = NoResponse
  /\ pre = db
  /\ approvedAt = [i \in DOMAIN db.rows |-> db.rows[i].published_at]
  /\ calls = 0
  /\ running = NoCalls
  /\ serial = NoTable
  /\ doc = NoDocument
  /\ widget = NoWidget

\* one approved listing of every loaded store
InitList == InitLoaded(ListKinds, 3)
NextList == req = NoRequest /\ ListApproved
SpecList == InitList /\ [][NextList]_vars

\* a loaded store takes at most one create, then one approve, then the
\* approved listing
InitModerate == InitLoaded(ModerationKinds, 2)
NextModerate ==
  \/ req = NoRequest /\ Create
  \/ Dispatch(fn, req) \notin {"approve", "list"} /\ Approve
  \/ Dispatch(fn, req) = "approve" /\ ListApproved
SpecModerate == InitModerate /\ [][NextModerate]_vars

(* ---------------------------- schema ensure --------------------------- *)
\* the columns a table of an earlier version may lack
LaterColumns(f) ==
  IF f = "announcements" THEN DOMAIN MigrationDefaults(0)
  ELSE {"status", "rejection_reason", "updated_at", "published_at"}

\* a table of f at time 2 that lacks some columns, empty or holding one row
EarlierTable(f, lacks, idx, filled) ==
  LET cols == TableColumns(f) \ lacks
      row == [c \in cols \ {"id"} |-> RowOf(f, Kind("approved", 1, 2, 2))[c]]
  IN Database(TRUE, cols, idx, IF filled THEN <<row>> ELSE <<>>,
              IF filled THEN 2 ELSE 1, 2)

\* the tables ensureTableExists may find: none, or one with any of the later
\* columns and any of the indexes missing
StartingTables(f) ==
  {NoTable} \cup
  {EarlierTable(f, lacks, idx, filled) :
     lacks \in SUBSET LaterColumns(f),
     idx \in SUBSET {StatusIndex(f), CreatedAtIndex(f)},
     filled \in BOOLEAN}

InitEnsure ==
  /\ fn \in Functions
  /\ db \in StartingTables(fn)
  /\ req = NoRequest
  /\ resp = NoResponse
  /\ pre = db
  /\ approvedAt = [i \in DOMAIN db.rows |-> NULL]
  /\ calls = 0
  /\ running = NoCalls
  /\ serial = NoTable
  /\ doc = NoDocument
  /\ widget = NoWidget

\* one more call of ensureTableExists
Ensure ==
  /\ calls < MaxCalls
  /\ db' = ensureTableExists(fn, db)
  /\ pre' = db
  /\ calls' = calls + 1
  /\ UNCHANGED <<fn, req, resp, approvedAt, running, serial, doc, widget>>

SpecEnsure == InitEnsure /\ [][Ensure]_vars

(* ------------------------------- routing ------------------------------ *)
\* req.method, and pathParts of up to three segments behind the function name
Methods == {"GET", "POST", "PUT", "PATCH", "DELETE"}

\* the id segments tried: the first uuid, the uuid no row has yet, no uuid
RouteSegs(d) ==
  {Seg("uuid", 1, ""), Seg("uuid", d.nextId, ""), Seg("bad", 0, "")}

Paths(d) ==
  {<<>>, <<Seg("uuid", 1, ""), Word("approve"), Word("now")>>}
    \cup {<<s>> : s \in RouteSegs(d)}
    \cup {<<s, Word(a)>> :
            s \in RouteSegs(d), a \in {"approve", "reject", "delete", "publish"}}

\* a request of any method on any path, without body or status parameter
AnyRequest ==
  \E verb \in Methods, parts \in Paths(db) : Handle(verb, parts, Undefined, NoBody)

NextRoutes == Create \/ AnyRequest
SpecRoutes == Init /\ [][NextRoutes]_vars

(* -------------------------- requests in flight ------------------------ *)
\* the existence check of ensureTableExists, first statement of invocation p
Begin(p, op) ==
  /\ running[p].pc = "idle"
  /\ running' = [running EXCEPT
                   ![p].op = op,
                   ![p].saw = db.exists,
                   ![p].pc = IF ~db.exists THEN "create"
                             ELSE IF fn = "announcements" THEN "alter"
                             ELSE AfterEnsure(op)]
  /\ UNCHANGED <<fn, db, req, resp, pre, approvedAt, calls, serial, client>>

BeginEnsure(p) == Begin(p, "ensure")
BeginRequest(p) == \E op \in RaceOps(fn) : Begin(p, op)

\* create branch: an error is thrown to the handler, which answers 500
CreateTable(p) ==
  /\ running[p].pc = "create"
  /\ LET q == CreateTableIfNotExists(fn, db) IN
       /\ db' = q.db
       /\ running' = [running EXCEPT
                        ![p].guarded = db.exists,
                        ![p].pc = IF q.ok THEN "status_index" ELSE "failed",
                        ![p].status = IF q.ok THEN @ ELSE 500]
  /\ UNCHANGED <<fn, req, resp, pre, approvedAt, calls, serial, client>>

\* migration branch of announcements.mts: an error is caught and logged
AlterTable(p) ==
  /\ running[p].pc = "alter"
  /\ LET q == AddColumnsIfNotExist(db) IN
       /\ db' = q.db
       /\ running' = [running EXCEPT
                        ![p].pc = IF q.ok THEN "status_index"
                                  ELSE AfterEnsure(running[p].op)]
  /\ UNCHANGED <<fn, req, resp, pre, approvedAt, calls, serial, client>>

\* a CREATE INDEX of invocation p; an error is caught in the migration
\* branch and thrown in the create branch
CreateIndex(p, pc, name, column, then) ==
  /\ running[p].pc = pc
  /\ LET q == CreateIndexIfNotExists(db, name, column) IN
       /\ db' = q.db
       /\ running' = [running EXCEPT
                        ![p].pc = IF q.ok THEN then
                                  ELSE IF running[p].saw
                                  THEN AfterEnsure(running[p].op)
                                  ELSE "failed",
                        ![p].status = IF q.ok \/ running[p].saw THEN @ ELSE 500]
  /\ UNCHANGED <<fn, req, resp, pre, approvedAt, calls, serial, client>>

CreateStatusIndex(p) ==
  CreateIndex(p, "status_index", StatusIndex(fn), "status", "created_at_index")

CreateCreatedAtIndex(p) ==
  CreateIndex(p, "created_at_index", CreatedAtIndex(fn), "created_at",
              AfterEnsure(running[p].op))

\* the UPDATE or DELETE of the route, and its response
Statement(p) ==
  /\ running[p].pc = "statement"
  /\ LET o == RouteOutcome(fn, running[p].op, db) IN
       /\ db' = o.db
       /\ running' = [running EXCEPT
                        ![p].pc = "done",
                        ![p].status = o.resp.status,
                        ![p].at = 1 + Cardinality({r \in Procs : running[r].at > 0})]
  /\ serial' = RouteOutcome(fn, running[p].op, serial).db
  /\ UNCHANGED <<fn, req, resp, pre, approvedAt, calls, client>>

\* concurrent calls of ensureTableExists on any starting table
InitEnsureRace ==
  /\ fn \in Functions
  /\ db \in StartingTables(fn)
  /\ req = NoRequest
  /\ resp = NoResponse
  /\ pre = db
  /\ approvedAt = [i \in DOMAIN db.rows |-> NULL]
  /\ calls = 0
  /\ running = NoCalls
  /\ serial = db
  /\ doc = NoDocument
  /\ widget = NoWidget

NextEnsureRace ==
  \E p \in Procs :
    \/ BeginEnsure(p) \/ CreateTable(p) \/ AlterTable(p)
    \/ CreateStatusIndex(p) \/ CreateCreatedAtIndex(p)

SpecEnsureRace == InitEnsureRace /\ [][NextEnsureRace]_vars

\* the stores the concurrent requests start from: no table, a table of the
\* earlier version, or a current table whose row 1 is pending, approved or
\* rejected
RaceKinds ==
  {Kind("pending", 1, NULL, 1), Kind("approved", 1, 2, 2),
   Kind("rejected", 1, NULL, 2)}

RaceTables(f) ==
  {NoTable}
    \cup (IF f = "announcements" THEN LegacyTables ELSE {})
    \cup {Database(TRUE, TableColumns(f), {StatusIndex(f), CreatedAtIndex(f)},
                   <<RowOf(f, k)>>, 2, 2) : k \in RaceKinds}

InitRace ==
  /\ fn \in Functions
  /\ db \in RaceTables(fn)
  /\ req = NoRequest
  /\ resp = NoResponse
  /\ pre = db
  /\ approvedAt = [i \in DOMAIN db.rows |-> NULL]
  /\ calls = 0
  /\ running = NoCalls
  /\ serial = db
  /\ doc = NoDocument
  /\ widget = NoWidget

NextRace ==
  \E p \in Procs :
    \/ BeginRequest(p) \/ CreateTable(p) \/ AlterTable(p)
    \/ CreateStatusIndex(p) \/ CreateCreatedAtIndex(p) \/ Statement(p)

SpecRace == InitRace /\ [][NextRace]_vars

(* --------------------------- injection engine -------------------------- *)
\* the page of one widget: the script is loaded once, into a document whose
\* body is not parsed yet
InitClient ==
  /\ fn = "announcements"
  /\ db = NoTable
  /\ req = NoRequest
  /\ resp = NoResponse
  /\ pre = db
  /\ approvedAt = <<>>
  /\ calls = 0
  /\ running = NoCalls
  /\ serial = NoTable
  /\ doc = NoDocument
  /\ \E e \in Engines : widget = NewWidget(e)

\* the script runs: part_000 calls init now or on DOMContentLoaded,
\* announcements.js starts its fetch
Run ==
  /\ widget.phase = "start"
  /\ widget' = [widget EXCEPT
                  !.phase = IF widget.engine = "poller" /\ ~doc.ready
                            THEN "waiting" ELSE "fetching",
                  !.last = "run"]
  /\ UNCHANGED <<doc, server>>

\* DOMContentLoaded: init of part_000 starts its fetch; the listener of
\* announcements.js inserts the ticker and then observes the root
DomContentLoaded ==
  /\ doc.root # "none" /\ ~doc.ready
  /\ LET d == [doc EXCEPT !.ready = TRUE] IN
     IF widget.phase = "deferred"
     THEN /\ doc' = InsertTicker(d)
          /\ widget' = [widget EXCEPT !.phase = "observing", !.observing = TRUE,
                                      !.last = "loaded"]
     ELSE /\ doc' = d
          /\ widget' = [widget EXCEPT
                          !.phase = IF @ = "waiting" THEN "fetching" ELSE @,
                          !.last = "loaded"]
  /\ UNCHANGED server

\* the fetch and response.json() settle with f; the rest of init runs
ResolvePoller(f) ==
  LET i == Insert(doc) IN
  IF ~PollerBuilds(f)
  THEN /\ widget' = [widget EXCEPT !.phase = "aborted", !.fetched = f,
                                      !.last = "resolve"]
       /\ doc' = doc
  ELSE /\ doc' = i.doc
       /\ widget' = [widget EXCEPT
                       !.phase = IF i.success THEN "done" ELSE "polling",
                       !.timer = ~i.success,
                       !.fetched = f,
                       !.chars = TotalChars(f.lengths),
                       !.duration = Duration(TotalChars(f.lengths)),
                       !.last = "resolve"]

ResolveObserver(f) ==
  IF ~ObserverBuilds(f)
  THEN /\ widget' = [widget EXCEPT !.phase = "aborted", !.fetched = f,
                                      !.last = "resolve"]
       /\ doc' = doc
  ELSE IF doc.root # "none"
  THEN /\ doc' = InsertTicker(doc)
       /\ widget' = [widget EXCEPT
                       !.phase = "observing", !.observing = TRUE,
                       !.pending = doc'.bar # doc.bar /\ doc'.bar.inside,
                       !.fetched = f,
                       !.chars = TotalChars(f.lengths),
                       !.duration = FixedDuration,
                       !.last = "resolve"]
  ELSE /\ doc' = doc
       /\ widget' = [widget EXCEPT
                       !.phase = "deferred",
                       !.fetched = f,
                       !.chars = TotalChars(f.lengths),
                       !.duration = FixedDuration,
                       !.last = "resolve"]

Resolve ==
  /\ widget.phase = "fetching"
  /\ \E f \in FetchOutcomes :
       IF widget.engine = "poller" THEN ResolvePoller(f) ELSE ResolveObserver(f)
  /\ UNCHANGED server

\* the setInterval callback of part_000
Tick ==
  /\ widget.timer
  /\ LET i == Insert(doc)
         stop == i.success \/ widget.retries + 1 >= POLL_MAX_RETRIES
     IN /\ doc' = IF i.success THEN i.doc
                  ELSE IF stop THEN Fallback(doc) ELSE doc
        /\ widget' = [widget EXCEPT
                        !.retries = @ + 1,
                        !.timer = ~stop,
                        !.phase = IF stop THEN "done" ELSE @,
                        !.last = "tick"]
  /\ UNCHANGED server

\* the MutationObserver callback of announcements.js
Callback ==
  /\ widget.observing /\ widget.pending
  /\ doc' = IF BarPresent(doc) THEN doc ELSE InsertTicker(doc)
  /\ widget' = [widget EXCEPT
                  !.pending = doc'.bar # doc.bar /\ doc'.bar.inside,
                  !.last = "callback"]
  /\ UNCHANGED server

\* the host page has changed the document; inside: below the root container,
\* where the observer of announcements.js is told of it
HostMutation(inside) ==
  /\ widget' = [widget EXCEPT !.pending = @ \/ (widget.observing /\ inside),
                              !.last = "host"]
  /\ UNCHANGED server

\* the body is parsed, with or without a #root or #app element
Parse ==
  /\ doc.root = "none"
  /\ \E r \in {"body", "root"} : doc' = [doc EXCEPT !.root = r]
  /\ HostMutation(FALSE)

\* the page renders element a
Render ==
  \E a \in Anchors, where \in {"inside", "outside"}, follows \in BOOLEAN :
    /\ doc.root # "none" /\ doc.anchors[a] = "absent"
    /\ where = "outside" => doc.root = "root"
    /\ follows =>
         /\ a \in {"nav", "header"}
         /\ \A b \in {"nav", "header"} \ {a} : doc.anchors[b] = where
         /\ ~(doc.bar.rel = "after" /\ doc.bar.at = "header")
    /\ doc' = [doc EXCEPT !.anchors[a] = where, !.navFollowsHeader = follows]
    /\ HostMutation(where = "inside")

\* the page removes element a, and the ticker with it when it is in a
Unmount ==
  \E a \in Anchors :
    /\ doc.anchors[a] # "absent"
    /\ doc' = [doc EXCEPT
                 !.anchors[a] = "absent",
                 !.navFollowsHeader = @ /\ a = "navbar",
                 !.bar = IF @.rel = "in" /\ @.at = a THEN Detached ELSE @]
    /\ HostMutation(doc.anchors[a] = "inside")

\* a re-render replaces what the root container holds
Wipe ==
  /\ doc.bar.inside \/ \E a \in Anchors : doc.anchors[a] = "inside"
  /\ doc' = [doc EXCEPT
               !.anchors = [a \in Anchors |->
                              IF @[a] = "inside" THEN "absent" ELSE @[a]],
               !.navFollowsHeader = @ /\ doc.anchors["nav"] = "outside",
               !.bar = IF @.inside THEN Detached ELSE @]
  /\ HostMutation(TRUE)

\* the page removes the ticker node
RemoveBar ==
  /\ BarPresent(doc)
  /\ doc' = [doc EXCEPT !.bar = Detached]
  /\ HostMutation(doc.bar.inside)

NextClient ==
  \/ Run \/ DomContentLoaded \/ Resolve \/ Tick \/ Callback
  \/ Parse \/ Render \/ Unmount \/ Wipe \/ RemoveBar

SpecClient == InitClient /\ [][NextClient]_vars

\* the event loop runs every callback that is due
SpecClientFair ==
  /\ SpecClient
  /\ WF_vars(Run) /\ WF_vars(Resolve) /\ WF_vars(Tick) /\ WF_vars(Callback)

(* ------------------------- vocabulary of the claims -------------------- *)
\* the operation of the last request and the uuid it addressed
LastOp == Dispatch(fn, req)
Moderation == {"approve", "reject", "delete"}
Target == IF LastOp \in Moderation THEN UuidCast(req.pathParts[1]) ELSE CastError

\* a column of a row; a column the table does not have yet holds no value
StatusOf(r) == IF "status" \in DOMAIN r THEN r.status ELSE "none"
PublishedAt(r) == IF "published_at" \in DOMAIN r THEN r.published_at ELSE NULL

\* row r2 holds every value row r1 holds
SameData(r1, r2) ==
  DOMAIN r1 \subseteq DOMAIN r2 /\ \A c \in DOMAIN r1 : r2[c] = r1[c]

\* the last request left every stored row as it was
RowsUntouched ==
  /\ DOMAIN db.rows = DOMAIN pre.rows
  /\ \A i \in DOMAIN pre.rows : SameData(pre.rows[i], db.rows[i])

(* --------------------------------- C1 ---------------------------------- *)
\* C1: once the status of a stored row is approved or rejected, no request
\* and no schema-ensure call makes it pending again.
NoReturnToPending ==
  [][\A i \in DOMAIN db.rows \cap DOMAIN db'.rows :
       StatusOf(db.rows[i]) \in {"approved", "rejected"}
         => StatusOf(db'.rows[i]) # "pending"]_vars

\* a moderated row was moderated again
ModeratedAgain ==
  /\ LastOp \in {"approve", "reject"} /\ resp.status = 200
  /\ Target \in DOMAIN pre.rows
  /\ StatusOf(pre.rows[Target]) \in {"approved", "rejected"}

(* --------------------------------- C2 ---------------------------------- *)
\* C2: every row a successful create produces has status pending and
\* published_at NULL right after the create, and the 201 response says pending.
CreatedPending ==
  /\ \A i \in DOMAIN db.rows \ DOMAIN pre.rows :
       db.rows[i].status = "pending" /\ db.rows[i].published_at = NULL
  /\ (LastOp = "create" /\ resp.status = 201) =>
       /\ Len(resp.rows) = 1
       /\ resp.rows[1].id \in DOMAIN db.rows \ DOMAIN pre.rows
       /\ resp.rows[1].status = "pending"

\* a create answered 201 in a table that already held a published row
CreatedBesidePublished ==
  /\ LastOp = "create" /\ resp.status = 201
  /\ \E i \in DOMAIN pre.rows : PublishedAt(pre.rows[i]) # NULL

(* --------------------------------- C3 ---------------------------------- *)
\* C3: published_at of a row is the time of the latest approve that succeeded
\* on it: every approve overwrites it with the current time, a reject leaves it.
PublishedAtIsLastApprove ==
  /\ \A i \in DOMAIN db.rows :
       approvedAt[i] # NULL => PublishedAt(db.rows[i]) = approvedAt[i]
  /\ (LastOp = "approve" /\ resp.status = 200) =>
       /\ db.rows[Target].published_at = db.now
       /\ db.now > pre.now
       /\ resp.rows[1].published_at = db.now
  /\ (LastOp = "reject" /\ resp.status = 200) =>
       PublishedAt(db.rows[Target]) = PublishedAt(pre.rows[Target])

\* a row approved earlier and rejected since was approved again
ApprovedRejectedApproved ==
  /\ LastOp = "approve" /\ resp.status = 200
  /\ StatusOf(pre.rows[Target]) = "rejected"
  /\ PublishedAt(pre.rows[Target]) # NULL
  /\ db.rows[Target].published_at > PublishedAt(pre.rows[Target])

(* --------------------------------- C4 ---------------------------------- *)
\* C4: published_at of a stored row is set iff an approve has succeeded on
\* the row; an approved row always has it set.
PublishedIffEverApproved ==
  \A i \in DOMAIN db.rows :
    /\ (PublishedAt(db.rows[i]) # NULL) <=> (approvedAt[i] # NULL)
    /\ StatusOf(db.rows[i]) = "approved" => PublishedAt(db.rows[i]) # NULL

\* a rejected row that still carries its publication time, beside a row that
\* was never approved
RejectedKeepsPublishedAt ==
  /\ \E i \in DOMAIN db.rows :
       StatusOf(db.rows[i]) = "rejected" /\ PublishedAt(db.rows[i]) # NULL
  /\ \E i \in DOMAIN db.rows :
       StatusOf(db.rows[i]) \in {"pending", "rejected"} /\ approvedAt[i] = NULL

(* --------------------------------- C5 ---------------------------------- *)
LegalChanges ==
  {<<"pending", "approved">>, <<"pending", "rejected">>,
   <<"approved", "rejected">>, <<"rejected", "approved">>}

\* C5: approve and reject of an existing row answer 200 whatever its status
\* and leave it approved, respectively rejected; a status only ever changes
\* along pending->approved, pending->rejected, approved->rejected,
\* rejected->approved.
ReModerationAllowed ==
  /\ (LastOp \in {"approve", "reject"} /\ Target \in DOMAIN pre.rows) =>
       /\ resp.status = 200
       /\ Target \in DOMAIN db.rows
       /\ db.rows[Target].status =
            (IF LastOp = "approve" THEN "approved" ELSE "rejected")
  /\ \A i \in DOMAIN pre.rows \cap DOMAIN db.rows :
       \/ StatusOf(pre.rows[i]) = "none"
       \/ StatusOf(db.rows[i]) = StatusOf(pre.rows[i])
       \/ <<StatusOf(pre.rows[i]), StatusOf(db.rows[i])>> \in LegalChanges

\* an approved row was rejected
ApprovedThenRejected ==
  /\ LastOp = "reject" /\ resp.status = 200
  /\ StatusOf(pre.rows[Target]) = "approved"
  /\ db.rows[Target].status = "rejected"

(* --------------------------------- C8 ---------------------------------- *)
\* the reason the last request supplied, Undefined when it supplied none
\* (no body, an unparsable body, or a body without the property)
SuppliedReason ==
  IF req.body.kind = "object" THEN req.body.reason ELSE Undefined

\* C8 as stated: a reject of an existing row of either resource stores the
\* supplied reason, and stores NULL when none is supplied.
RejectStoresReason ==
  (LastOp = "reject" /\ resp.status = 200) =>
     /\ "rejection_reason" \in DOMAIN db.rows[Target]
     /\ db.rows[Target].rejection_reason =
          (IF SuppliedReason = Undefined THEN NullText ELSE SuppliedReason)

\* C8: a reject of an existing testimonial stores the supplied reason when it
\* is a non-empty text, and NULL when the reason is absent or empty or the
\* body is absent or unparsable, whatever reason the row held; announcements
\* hold no rejection reason and their reject leaves all but status and
\* updated_at as it was.
TestimonialRejectStoresReason ==
  /\ (fn = "testimonials" /\ LastOp = "reject" /\ resp.status = 200) =>
       /\ db.rows[Target].rejection_reason =
            (IF SuppliedReason \in {Undefined, ""} THEN NullText
             ELSE SuppliedReason)
       /\ resp.rows[1].rejection_reason = db.rows[Target].rejection_reason
  /\ fn = "announcements" =>
       /\ "rejection_reason" \notin db.columns
       /\ \A i \in DOMAIN db.rows : "rejection_reason" \notin DOMAIN db.rows[i]
       /\ (LastOp = "reject" /\ resp.status = 200) =>
            \A c \in DOMAIN pre.rows[Target] \ {"status", "updated_at"} :
              db.rows[Target][c] = pre.rows[Target][c]

\* a testimonial rejected with a reason was rejected again without one
ReasonCleared ==
  /\ fn = "testimonials" /\ LastOp = "reject" /\ resp.status = 200
  /\ pre.rows[Target].rejection_reason = "r1"
  /\ SuppliedReason = Undefined
  /\ db.rows[Target].rejection_reason = NullText

(* --------------------------------- C9 ---------------------------------- *)
\* C9: approve, reject and delete of a well-formed id answer 404 and leave
\* every stored row as it was when no row has the id, and answer 200 when a
\* row has it.
NotFoundOrOk ==
  (LastOp \in Moderation /\ Target # CastError) =>
     IF Target \in DOMAIN pre.rows THEN resp.status = 200
     ELSE resp.status = 404 /\ RowsUntouched

\* a delete of an unknown uuid answered 404 while the table held a row
DeleteNotFound ==
  /\ LastOp = "delete" /\ Target # CastError
  /\ Target \notin DOMAIN pre.rows /\ DOMAIN pre.rows # {}
  /\ resp.status = 404

(* --------------------------------- C10 --------------------------------- *)
\* C10: approve, reject and delete of an id that is no uuid answer a
\* client-input error (4xx) that is neither 404 nor 500, and leave the store
\* as it was.
MalformedIdIsClientError ==
  (LastOp \in Moderation /\ Target = CastError) =>
     /\ resp.status \in 400..499
     /\ resp.status \notin {404, 500}
     /\ RowsUntouched

(* --------------------------------- C6 ---------------------------------- *)
\* the last request was the approved listing and it answered 200
ListedApproved == LastOp = "list" /\ req.status = "approved" /\ resp.status = 200

ApprovedIds(d) == {i \in DOMAIN d.rows : d.rows[i].status = "approved"}

\* consecutive rows a, b of a listing by published_at descending, then
\* created_at descending
PublishedOrder(a, b) ==
  \/ a.published_at > b.published_at
  \/ a.published_at = b.published_at /\ a.created_at >= b.created_at

Sorted(out, InOrder(_, _)) ==
  \A k \in 1..(Len(out) - 1) : InOrder(out[k], out[k + 1])

CreatedOrder(a, b) == a.created_at >= b.created_at

JustApproved == LastOp = "approve" /\ resp.status = 200

\* C7: a create answers 201 with status pending; an approve of a stored id
\* answers 200 with status approved and published_at set; the approved
\* listing requested next contains that id.
ApprovedThenListed ==
  [][/\ (Dispatch(fn, req') = "create" /\ resp'.status = 201) =>
          resp'.rows[1].status = "pending"
     /\ (Dispatch(fn, req') = "approve" /\ resp'.status = 200) =>
          /\ resp'.rows[1].status = "approved"
          /\ resp'.rows[1].published_at # NULL
     /\ (/\ JustApproved
         /\ Dispatch(fn, req') = "list" /\ req'.status = "approved") =>
          /\ resp'.status = 200
          /\ \E k \in 1..Len(resp'.rows) : resp'.rows[k].id = Target]_vars

\* the approved listing of a store of more than 5 approved rows contains the
\* row created last, whose approve is the latest
NewestListed ==
  /\ ListedApproved
  /\ Cardinality(ApprovedIds(db)) > 5
  /\ db.nextId - 1 \in DOMAIN db.rows
  /\ db.rows[db.nextId - 1].created_at > 2
  /\ approvedAt[db.nextId - 1] = db.now
  /\ \E k \in 1..Len(resp.rows) : resp.rows[k].id = db.nextId - 1

(* --------------------------------- C11 --------------------------------- *)
\* the five routes of the route table
DefinedRoute(r) ==
  \/ r.method = "GET" /\ Len(r.pathParts) = 0
  \/ r.method = "POST" /\ Len(r.pathParts) = 0
  \/ r.method = "POST" /\ IsAction(r, "approve")
  \/ r.method = "POST" /\ IsAction(r, "reject")
  \/ r.method = "DELETE" /\ Len(r.pathParts) = 1

\* C11: a request of any other method and path than the five routes is
\* answered 405 and leaves the table and its rows as they were.
UnroutedIs405 ==
  (req # NoRequest /\ ~DefinedRoute(req)) => (resp.status = 405 /\ db = pre)

(* --------------------------------- C12 --------------------------------- *)
\* the last request was DELETE root/<id> for the id of a stored row
DeletedExisting ==
  /\ req.method = "DELETE" /\ Len(req.pathParts) = 1
  /\ UuidCast(req.pathParts[1]) \in DOMAIN pre.rows

\* C12: DELETE root/<id> of a stored row of either resource answers 200 and
\* removes that row and no other; approve, reject and delete of an id no row
\* has answer 404; a listing returns stored rows only; and a row leaves the
\* store only through such a request.
DeleteRemovesRow ==
  /\ DeletedExisting =>
       /\ resp.status = 200
       /\ DOMAIN db.rows = DOMAIN pre.rows \ {UuidCast(req.pathParts[1])}
  /\ (/\ req.method \in {"POST", "DELETE"} /\ Len(req.pathParts) \in {1, 2}
      /\ DefinedRoute(req)
      /\ UuidCast(req.pathParts[1]) \notin DOMAIN pre.rows \cup {CastError}) =>
       resp.status = 404
  /\ (LastOp = "list" /\ resp.status = 200) =>
       \A k \in 1..Len(resp.rows) : resp.rows[k].id \in DOMAIN db.rows
  /\ ~(DOMAIN pre.rows \subseteq DOMAIN db.rows) => DeletedExisting

(* --------------------------------- C13 --------------------------------- *)
\* a field of the posted body is missing: no body, no JSON object, or the
\* property absent or empty
Missing(body, field) == body.kind # "object" \/ Falsy(body[field])

RequiredMissing ==
  IF fn = "announcements" THEN Missing(req.body, "content")
  ELSE Missing(req.body, "fullName") \/ Missing(req.body, "testimonialContent")

\* C13: POST root answers 400 and inserts nothing when a required field is
\* missing, and otherwise answers 201 and adds exactly one row under an id no
\* row had.
CreateValidates ==
  (req.method = "POST" /\ Len(req.pathParts) = 0) =>
     IF RequiredMissing
     THEN resp.status = 400 /\ db.rows = pre.rows
     ELSE /\ resp.status = 201
          /\ DOMAIN pre.rows \subseteq DOMAIN db.rows
          /\ Cardinality(DOMAIN db.rows \ DOMAIN pre.rows) = 1
          /\ resp.rows[1].id \in DOMAIN db.rows \ DOMAIN pre.rows

(* --------------------------------- C19 --------------------------------- *)
Schema(d) == [exists |-> d.exists, columns |-> d.columns, indexes |-> d.indexes]

\* C19: every call of the schema-ensure operation leaves the table present
\* and every stored row with the values it had, and every call after the
\* first leaves table, columns, indexes and rows exactly as the first call
\* left them.
EnsureIdempotent ==
  /\ calls >= 1 => (db.exists /\ RowsUntouched)
  /\ calls >= 2 => (Schema(db) = Schema(pre) /\ db.rows = pre.rows)

\* the first call migrated a stored row of an announcements table of an
\* earlier version, and the operation was called again
MigratedThenCalledAgain ==
  /\ calls >= 2 /\ fn = "announcements"
  /\ \E i \in DOMAIN db.rows : db.rows[i].updated_at = 3 /\ db.rows[i].created_at = 1

(* ------------------------------- C14 ----------------------------------- *)
\* the step is an insertion attempt of the script: the immediate attempt,
\* a poll tick, the forced fallback, an observer callback or the
\* DOMContentLoaded listener
EngineSteps == {"resolve", "tick", "callback", "loaded"}

\* C14: while a ticker node is in the document, no insertion attempt of the
\* script changes where it is (so no second node is ever placed), and the
\* script places the node only when the document holds none, whatever the host
\* page does in between.
InsertionNoOpWhilePresent ==
  [][ /\ (doc.bar # Detached /\ widget'.last \in EngineSteps)
          => doc'.bar = doc.bar
      /\ (doc'.bar # Detached /\ doc'.bar # doc.bar) => doc.bar = Detached
    ]_vars

\* an observer callback ran while the ticker was at the top of the root and a
\* nav had been rendered since: it left the ticker where it was
CallbackFoundTicker ==
  /\ widget.last = "callback"
  /\ doc.bar = Top
  /\ doc.anchors["nav"] # "absent"

(* ------------------------------- C15 ----------------------------------- *)
\* the script has inserted the ticker and the host page has removed it since
TickerRemoved ==
  /\ widget.phase \in {"done", "observing"}
  /\ doc.bar = Detached

\* C15: whenever the host page removes the ticker after its insertion, the
\* ticker is eventually in the document again.
TickerReasserted == TickerRemoved ~> (doc.bar # Detached)

(* ------------------------------- C16 ----------------------------------- *)
\* the script places the ticker at the top of the root container
FallbackPerformed ==
  /\ widget'.last \in EngineSteps
  /\ doc.bar = Detached /\ doc'.bar = Top

\* C16: with a non-empty list and no anchor at the first attempt, the script
\* polls at most 20 ticks; the timer stops on the first tick that finds an
\* anchor and at the 20th tick at the latest; the fallback insertion is made
\* only after the immediate attempt and all 20 ticks have failed; and when
\* polling stops the ticker is in the document.
PollingBounded ==
  [][ /\ widget'.retries <= 20
      /\ (widget.timer /\ widget'.last = "tick"
             /\ QuerySelectors(doc, NavSelectors) # "none") => ~widget'.timer
      /\ widget'.retries >= 20 => ~widget'.timer
      /\ FallbackPerformed => widget'.retries = 20
      /\ (widget.timer /\ ~widget'.timer) => doc'.bar # Detached
    ]_vars

(* ------------------------------- C17 ----------------------------------- *)
\* the step ran the insertion logic: insert of part_000 at the immediate
\* attempt or a tick, insertTicker of announcements.js at its first call, in
\* an observer callback or in the DOMContentLoaded listener
InjectionRan ==
  \/ widget'.last \in {"tick", "callback"}
  \/ widget'.last = "resolve" /\ widget'.phase \in {"done", "polling", "observing"}
  \/ widget'.last = "loaded" /\ widget.phase = "deferred"

HasNav(d) == d.anchors["nav"] # "absent"

\* the ticker is inside the nav or next to it
NearNav(d) ==
  \/ d.bar.at = "nav"
  \/ d.bar.rel = "after" /\ d.bar.at = "header" /\ d.navFollowsHeader

\* C17 as stated: on a document with a <nav> and no ticker, the injection
\* logic puts the ticker adjacent to or inside that <nav>, whatever other
\* anchors the document holds, and a further run changes nothing.
InsertsAtNav ==
  [][ InjectionRan =>
        /\ (HasNav(doc) /\ doc.bar = Detached)
             => (doc'.bar # Detached /\ NearNav(doc'))
        /\ doc.bar # Detached => doc'.bar = doc.bar
    ]_vars

\* the anchor each variant picks on a document that holds a <nav>
AnchorWithNav(d) ==
  IF widget.engine = "poller" /\ d.anchors["header"] # "absent"
  THEN "header" ELSE "nav"

\* C17 (amended): on a document with a <nav> and no ticker, the injection
\* logic puts the ticker at the first match of its anchor search: part_000
\* right after the <header> when there is one and right after the <nav>
\* otherwise, announcements.js inside the <nav> as its last child; a further
\* run changes nothing.
InsertsAtFirstMatch ==
  [][ InjectionRan =>
        /\ (HasNav(doc) /\ doc.bar = Detached)
             => /\ doc'.bar.at = AnchorWithNav(doc)
                /\ doc'.bar.rel =
                     IF widget.engine = "poller" THEN "after" ELSE "in"
        /\ doc.bar # Detached => doc'.bar = doc.bar
    ]_vars

\* part_000 has just inserted the ticker after the <header> of a document
\* whose <nav> is elsewhere
InsertedAfterHeader ==
  /\ widget.engine = "poller"
  /\ widget.last \in {"resolve", "tick"}
  /\ doc.bar.rel = "after" /\ doc.bar.at = "header"
  /\ HasNav(doc) /\ ~doc.navFollowsHeader

(* ------------------------------- C18 ----------------------------------- *)
\* the fetch failed, or answered with a non-success status, with a body that
\* is no JSON array, or with an empty array
FetchUnusable(f) ==
  \/ f.kind = "error"
  \/ f.kind = "response" /\ (~f.ok \/ f.body # "array" \/ f.lengths = <<>>)

\* C18: once the initial fetch has failed, answered with a non-success
\* status, with unparsable data or with an empty list, the script has given
\* up: no ticker is in the document, and no timer and no observer is running.
AbortsSilently ==
  FetchUnusable(widget.fetched) =>
    /\ widget.phase = "aborted"
    /\ doc.bar = Detached
    /\ ~widget.timer /\ ~widget.observing

(* ------------------------------- C20 ----------------------------------- *)
\* C20: the scroll duration the script gives the ticker of a list whose
\* contents total C characters is max(10, 10 + 0.15 * C) seconds, here in
\* hundredths of a second: 10 s for C = 0 and 25 s for C = 100.
DurationFollowsLength ==
  widget.duration # 0 =>
    /\ widget.duration = Max(1000, 1000 + 15 * widget.chars)
    /\ widget.chars = 0 => widget.duration = 1000
    /\ widget.chars = 100 => widget.duration = 2500

(* ------------------------------- C21 ----------------------------------- *)
\* C21: one call of the schema-ensure operation on a table that an earlier
\* version created leaves the table with the columns status, published_at,
\* rejection_reason and updated_at and with both indexes, for announcements
\* and for testimonials.
MigrationCompletes ==
  (calls = 1 /\ pre.exists) =>
    /\ {"status", "published_at", "rejection_reason", "updated_at"}
          \subseteq db.columns
    /\ {StatusIndex(fn), CreatedAtIndex(fn)} \subseteq db.indexes

(* ------------------------------- C22 ----------------------------------- *)
\* C22: when calls of the schema-ensure operation interleave their existence
\* checks and their create and migrate statements, no call fails, and once
\* all have returned the table, its columns and its indexes are those that
\* one call alone leaves.
EnsureRaceSafe ==
  /\ \A p \in Procs : running[p].pc # "failed"
  /\ (\A p \in Procs : running[p].pc = "done")
       => Schema(db) = Schema(ensureTableExists(fn, pre))

\* all calls have returned, and one of them had found no table and then
\* issued its CREATE TABLE after another call had created the table
LostTheRace ==
  /\ \A p \in Procs : running[p].pc = "done"
  /\ \E p \in Procs : ~running[p].saw /\ running[p].guarded

(* ------------------------------- C23 ----------------------------------- *)
AllAnswered == \A p \in Procs : running[p].pc = "done"

\* invocation p deleted the row
Deleted(p) == running[p].op = "delete" /\ running[p].status = 200

\* C23: under every interleaving of concurrent approve, reject and delete
\* requests on one id, the store they leave is the store the same requests
\* leave when handled one after another, in the order of their statements;
\* no approved row has a null published_at, a deleted row is gone for good,
\* and a request whose statement runs after the delete answers 404.
LastWriteWins ==
  /\ \A p \in Procs :
       running[p].pc = "statement" => ensureTableExists(fn, db) = db
  /\ AllAnswered => (db.rows = serial.rows /\ Schema(db) = Schema(serial))
  /\ \A i \in DOMAIN db.rows :
       (HasColumns(db, {"status", "published_at"}) /\ db.rows[i].status = "approved")
         => db.rows[i].published_at # NULL
  /\ \A p \in Procs : Deleted(p) => UuidCast(TargetSeg) \notin DOMAIN db.rows
  /\ \A p, q \in Procs :
       (Deleted(p) /\ running[q].at > running[p].at) => running[q].status = 404

\* on a table of the earlier version holding the row, a delete and an approve
\* were in flight together; the delete ran first and the approve answered 404
ApprovedAfterDelete ==
  /\ AllAnswered
  /\ pre.columns = LegacyAnnouncementColumns /\ pre.rows # <<>>
  /\ \E p, q \in Procs :
       /\ Deleted(p) /\ running[p].at = 1
       /\ running[q].op = "approve" /\ running[q].at = 2
       /\ running[q].status = 404

(* ------------------------------- C24 ----------------------------------- *)
\* the columns approve and reject write
ModerationFields == {"status", "published_at", "rejection_reason", "updated_at"}

\* row i is exactly as before the last request; on a table of an earlier
\* version, it holds every value it held
RowKept(i) ==
  /\ i \in DOMAIN db.rows
  /\ SameData(pre.rows[i], db.rows[i])
  /\ HasColumns(pre, TableColumns(fn)) => db.rows[i] = pre.rows[i]

\* C24: approve and reject change only the addressed row, and of it only
\* status, published_at, rejection_reason and updated_at: its id, its content
\* and its created_at stay as they were, and so does every other row; a
\* listing changes no row.
ModerationFrame ==
  /\ LastOp \in {"approve", "reject"} =>
       /\ DOMAIN db.rows = DOMAIN pre.rows
       /\ \A i \in DOMAIN pre.rows \ {Target} : RowKept(i)
       /\ \A i \in DOMAIN pre.rows \cap {Target} :
            \A c \in DOMAIN pre.rows[i] \ ModerationFields :
              db.rows[i][c] = pre.rows[i][c]
  /\ LastOp = "list" =>
       (DOMAIN db.rows = DOMAIN pre.rows /\ \A i \in DOMAIN pre.rows : RowKept(i))

\* an approve or reject has just changed one of two stored rows
ModeratedOneOfTwo ==
  /\ LastOp \in {"approve", "reject"} /\ resp.status = 200
  /\ Cardinality(DOMAIN pre.rows) >= 2
  /\ db.rows[Target] # pre.rows[Target]

====
